---- MODULE Spec2Model ----
(***************************************************************************)
(* note-splitter: tokens (src/src/note_splitter/tokens.py), the settings   *)
(* and the token type registry (src/src/note_splitter/settings.py) and the *)
(* lexer, block assembler and section splitter that build and cut token    *)
(* sequences.                                                              *)
(*                                                                         *)
(* A text is a sequence of one-character strings.  A token is a record     *)
(* with the fields its Python class assigns: kind (the class name),        *)
(* content (the line for a simple token, the list of sub-tokens for a      *)
(* Block) and the attributes level, body or language.  A constructor that  *)
(* raises yields an exception record instead (kind = the exception name).  *)
(***************************************************************************)
EXTENDS Integers, Sequences, FiniteSets, TLC

VARIABLES
    pc,            \* position of the pipeline run
    text,          \* the input document
    lines,         \* the document split on the line terminator
    pos,           \* index of the next line to process
    stack,         \* open block builders, innermost last
    ast,           \* top-level tokens assembled so far
    error,         \* exception that ended the run, or "none"
    split_type,    \* settings['split_type'] used by the splitter
    split_attrs,   \* settings['split_attrs'] used by the splitter
    preamble,      \* tokens before the first split point
    sections,      \* the Sections returned by the splitter
    any_is_class,  \* whether typing.Any is a class in the running interpreter
    last_type,     \* argument of the last get_token_type_name call
    last_name,    \* result of the last get_token_type_name call
    asked_name,   \* argument of the last get_token_type call
    found,         \* result of the last get_token_type call
    made_cls,      \* class of the last constructor call
    made_arg,      \* argument of the last constructor call
    made_token,    \* token or exception of the last constructor call
    asked_line,    \* line handed to the classifier last
    line_type,     \* token type the classifier returned for it
    settings,      \* the settings dictionary
    objects,       \* the mutable objects the settings can refer to
    file,          \* settings.json
    last_call,     \* the last operation on the settings
    outcome,       \* "returned" or the exception the last operation raised
    before_save    \* outcome of the last save_settings and the settings
                   \* before it, kept through the load_settings after it

vars == <<pc, text, lines, pos, stack, ast, error, split_type, split_attrs,
          preamble, sections, any_is_class, last_type, last_name,
          asked_name, found, made_cls, made_arg, made_token, asked_line,
          line_type, settings, objects, file, last_call, outcome,
          before_save>>

pipeline_vars == <<pc, text, lines, pos, stack, ast, error, split_type,
                   split_attrs, preamble, sections>>

registry_vars == <<any_is_class, last_type, last_name, asked_name, found>>

token_vars == <<made_cls, made_arg, made_token, asked_line, line_type>>

settings_vars == <<settings, objects, file, last_call, outcome,
                   before_save>>

\* ------------------------------------------------------------------------
\* Bounds

\* longest generated document, in lines
MaxLines == 3

\* longest generated line handed to a constructor or to the classifier
MaxChars == 3

\* ------------------------------------------------------------------------
\* Strings

NL == "\n"

\* the backtick character (a string literal cannot hold it)
Backtick == "backtick"

Whitespace == {" ", "\t"}

UpperCase == <<"A","B","C","D","E","F","G","H","I","J","K","L","M",
               "N","O","P","Q","R","S","T","U","V","W","X","Y","Z">>

LowerCase == <<"a","b","c","d","e","f","g","h","i","j","k","l","m",
               "n","o","p","q","r","s","t","u","v","w","x","y","z">>

Digits == {"0","1","2","3","4","5","6","7","8","9"}

UpperLetters == {UpperCase[i] : i \in 1..Len(UpperCase)}

LowerLetters == {LowerCase[i] : i \in 1..Len(LowerCase)}

\* the lower-case letter of each upper-case letter
LowerOf ==
    [c \in UpperLetters |->
        LowerCase[CHOOSE i \in 1..Len(UpperCase) : UpperCase[i] = c]]

\* str.isupper for one character
isupper(c) == c \in UpperLetters

\* str.lower for one character
lower_char(c) == IF isupper(c) THEN LowerOf[c] ELSE c

\* str.lower
lower(s) == [i \in 1..Len(s) |-> lower_char(s[i])]

\* str.lstrip(chars)
RECURSIVE lstrip(_, _)
lstrip(s, chars) ==
    IF s # <<>> /\ Head(s) \in chars THEN lstrip(Tail(s), chars) ELSE s

\* str.rstrip(chars)
RECURSIVE rstrip(_, _)
rstrip(s, chars) ==
    IF s # <<>> /\ s[Len(s)] \in chars
    THEN rstrip(SubSeq(s, 1, Len(s) - 1), chars)
    ELSE s

\* str.strip()
strip(s) == rstrip(lstrip(s, Whitespace), Whitespace)

\* str.startswith
startswith(s, p) == Len(s) >= Len(p) /\ SubSeq(s, 1, Len(p)) = p

\* str.split('\n'): k terminators give k + 1 lines
RECURSIVE split(_, _)
split(s, cur) ==
    IF s = <<>> THEN <<cur>>
    ELSE IF Head(s) = NL THEN <<cur>> \o split(Tail(s), <<>>)
    ELSE split(Tail(s), Append(cur, Head(s)))

\* '\n'.join(ls)
RECURSIVE join(_)
join(ls) ==
    IF ls = <<>> THEN <<>>
    ELSE IF Len(ls) = 1 THEN ls[1]
    ELSE ls[1] \o <<NL>> \o join(Tail(ls))

\* ------------------------------------------------------------------------
\* Class hierarchy of tokens.py

base == [
    Token |-> "ABC", Block |-> "Token", TextListItem |-> "Token",
    OrderedListItem |-> "TextListItem", TablePart |-> "Token",
    Fence |-> "Token", Text |-> "Token", EmptyLine |-> "Token",
    Header |-> "Token", HorizontalRule |-> "Token", Blockquote |-> "Token",
    BlockquoteBlock |-> "Block", Footnote |-> "Token",
    ToDo |-> "TextListItem", Done |-> "TextListItem",
    UnorderedListItem |-> "TextListItem",
    NumberedListItem |-> "OrderedListItem",
    LetteredListItem |-> "OrderedListItem", TextList |-> "Block",
    TableRow |-> "TablePart", TableDivider |-> "TablePart",
    Table |-> "Block", CodeFence |-> "Fence", Code |-> "Token",
    CodeBlock |-> "Block", MathFence |-> "Fence", Math |-> "Token",
    MathBlock |-> "Block", Section |-> "Block", Any |-> "object"]

\* issubclass(cls, ancestor)
RECURSIVE issubclass(_, _)
issubclass(cls, ancestor) ==
    \/ cls = ancestor
    \/ /\ cls \in DOMAIN base
       /\ issubclass(base[cls], ancestor)

\* ------------------------------------------------------------------------
\* Exceptions

NameError == [kind |-> "NameError", content |-> <<>>]

IndexError == [kind |-> "IndexError", content |-> <<>>]

ValueError == [kind |-> "ValueError", content |-> <<>>]

AttributeError == [kind |-> "AttributeError", content |-> <<>>]

KeyError == [kind |-> "KeyError", content |-> <<>>]

OSError == [kind |-> "OSError", content |-> <<>>]

Exceptions ==
    {"NameError", "IndexError", "ValueError", "AttributeError", "KeyError",
     "OSError"}

raised(v) == v.kind \in Exceptions

\* ------------------------------------------------------------------------
\* Indentation

get_indentation_level(line) ==
    LET level == Len(line) - Len(lstrip(line, {" "}))
    IN  IF level = 0
        THEN (Len(line) - Len(lstrip(line, {"\t"}))) * 4
        ELSE level

\* The names bound in the module namespace of tokens.py that start with two
\* underscores, as <<class, name>> with class "" for a plain global.
module_private_names ==
    {<<"", "__get_indentation_level">>, <<"", "__is_token_type">>}

\* Inside a class body Python compiles a name with two leading underscores
\* as _<Class>__name; outside any class the name is left alone.
mangle(cls, name) == <<cls, name>>

\* the call  __get_indentation_level(line)  written inside class cls
call_get_indentation_level(cls, line) ==
    IF mangle(cls, "__get_indentation_level") \in module_private_names
    THEN [kind |-> "int", value |-> get_indentation_level(line)]
    ELSE NameError

\* a token class whose __init__ is: content = line; level = indentation
leveled(cls, line) ==
    LET lv == call_get_indentation_level(cls, line)
    IN  IF raised(lv) THEN lv
        ELSE [kind |-> cls, content |-> line, level |-> lv.value]

\* ------------------------------------------------------------------------
\* Token constructors

Text(line) == leveled("Text", line)

EmptyLine(line) == [kind |-> "EmptyLine", content |-> line]

Header(line) ==
    LET body == lstrip(line, {"#"})
    IN  [kind |-> "Header", content |-> line,
         body |-> lstrip(body, Whitespace),
         level |-> Len(line) - Len(body)]

HorizontalRule(line) == [kind |-> "HorizontalRule", content |-> line]

Blockquote(line) == leveled("Blockquote", line)

Footnote(line) == [kind |-> "Footnote", content |-> line]

ToDo(line) == leveled("ToDo", line)

Done(line) == leveled("Done", line)

UnorderedListItem(line) == leveled("UnorderedListItem", line)

NumberedListItem(line) == leveled("NumberedListItem", line)

LetteredListItem(line) == leveled("LetteredListItem", line)

TableRow(line) == [kind |-> "TableRow", content |-> line]

TableDivider(line) == [kind |-> "TableDivider", content |-> line]

CodeFence(line) ==
    [kind |-> "CodeFence", content |-> line,
     language |-> strip(lstrip(lstrip(line, {"~"}), {Backtick}))]

Code(line) == [kind |-> "Code", content |-> line]

MathFence(line) == [kind |-> "MathFence", content |-> line]

Math(line) == [kind |-> "Math", content |-> line]

BlockquoteBlock(tokens_) == [kind |-> "BlockquoteBlock", content |-> tokens_]

TextList(tokens_) ==
    IF tokens_ = <<>> THEN IndexError
    ELSE IF "level" \notin DOMAIN tokens_[1] THEN AttributeError
    ELSE [kind |-> "TextList", content |-> tokens_,
          level |-> tokens_[1].level]

Table(tokens_) == [kind |-> "Table", content |-> tokens_]

CodeBlock(tokens_) ==
    IF tokens_ = <<>> THEN IndexError
    ELSE IF "language" \notin DOMAIN tokens_[1] THEN AttributeError
    ELSE [kind |-> "CodeBlock", content |-> tokens_,
          language |-> tokens_[1].language]

MathBlock(tokens_) == [kind |-> "MathBlock", content |-> tokens_]

Section_without_first(tokens_) ==
    [kind |-> "Section", content |-> Tail(tokens_)]

Section(tokens_) == [kind |-> "Section", content |-> tokens_]

\* token_type(line) for a simple token class
construct(cls, line) ==
    CASE cls = "Text" -> Text(line)
      [] cls = "EmptyLine" -> EmptyLine(line)
      [] cls = "Header" -> Header(line)
      [] cls = "HorizontalRule" -> HorizontalRule(line)
      [] cls = "Blockquote" -> Blockquote(line)
      [] cls = "Footnote" -> Footnote(line)
      [] cls = "ToDo" -> ToDo(line)
      [] cls = "Done" -> Done(line)
      [] cls = "UnorderedListItem" -> UnorderedListItem(line)
      [] cls = "NumberedListItem" -> NumberedListItem(line)
      [] cls = "LetteredListItem" -> LetteredListItem(line)
      [] cls = "TableRow" -> TableRow(line)
      [] cls = "TableDivider" -> TableDivider(line)
      [] cls = "CodeFence" -> CodeFence(line)
      [] cls = "Code" -> Code(line)
      [] cls = "MathFence" -> MathFence(line)
      [] cls = "Math" -> Math(line)

\* block_type(tokens_) for a Block class
construct_block(cls, tokens_) ==
    CASE cls = "BlockquoteBlock" -> BlockquoteBlock(tokens_)
      [] cls = "TextList" -> TextList(tokens_)
      [] cls = "Table" -> Table(tokens_)
      [] cls = "CodeBlock" -> CodeBlock(tokens_)
      [] cls = "MathBlock" -> MathBlock(tokens_)
      [] cls = "Section" -> Section(tokens_)

\* ------------------------------------------------------------------------
\* Rendering

\* Token.__str__
Token_str(token) == token.content \o <<NL>>

\* str(token): Block.__str__ for a Block, Token.__str__ otherwise
RECURSIVE str(_)
RECURSIVE str_all(_)
str(token) ==
    IF issubclass(token.kind, "Block")
    THEN str_all(token.content)
    ELSE Token_str(token)

\* ''.join([str(token) for token in tokens_])
str_all(tokens_) ==
    IF tokens_ = <<>> THEN <<>>
    ELSE str(Head(tokens_)) \o str_all(Tail(tokens_))

\* ------------------------------------------------------------------------
\* Patterns: the recognizer of each simple token type

Bullets == {"-", "*", "+"}

CodeFenceMarks == {<<Backtick, Backtick, Backtick>>, <<"~", "~", "~">>}

empty_line(line) == lstrip(line, Whitespace) = <<>>

any_header(line) ==
    LET rest == lstrip(line, {"#"})
    IN  Len(rest) < Len(line) /\ rest # <<>> /\ Head(rest) = " "

horizontal_rule(line) ==
    LET s == strip(line)
    IN  Len(s) >= 3 /\ \E c \in {"-", "*", "_"} : \A i \in 1..Len(s) : s[i] = c

code_fence(line) ==
    \E m \in CodeFenceMarks : startswith(lstrip(line, Whitespace), m)

math_fence(line) == strip(line) = <<"$", "$">>

blockquote(line) == startswith(lstrip(line, Whitespace), <<">">>)

to_do(line) ==
    LET s == lstrip(line, Whitespace)
    IN  \E b \in Bullets : startswith(s, <<b, " ", "[", " ", "]", " ">>)

done(line) ==
    LET s == lstrip(line, Whitespace)
    IN  \E b \in Bullets : startswith(s, <<b, " ", "[", "x", "]", " ">>)

footnote(line) ==
    /\ startswith(line, <<"[", "^">>)
    /\ \E i \in 4..Len(line) - 2 :
          line[i] = "]" /\ line[i + 1] = ":" /\ line[i + 2] = " "

unordered_list_item(line) ==
    LET s == lstrip(line, Whitespace)
    IN  \E b \in Bullets : startswith(s, <<b, " ">>)

numbered_list_item(line) ==
    LET s == lstrip(line, Whitespace)
        rest == lstrip(s, Digits)
    IN  Len(rest) < Len(s) /\ startswith(rest, <<".", " ">>)

lettered_list_item(line) ==
    LET s == lstrip(line, Whitespace)
        rest == lstrip(s, LowerLetters \cup UpperLetters)
    IN  Len(rest) < Len(s) /\ startswith(rest, <<".", " ">>)

table_divider(line) ==
    LET s == strip(line)
    IN  /\ s # <<>>
        /\ s[1] = "|"
        /\ \A i \in 1..Len(s) : s[i] \in {"|", "-", ":", " "}
        /\ \E i \in 1..Len(s) : s[i] = "-"

table_row(line) ==
    LET s == strip(line)
    IN  Len(s) >= 2 /\ s[1] = "|" /\ s[Len(s)] = "|"

\* token_type.pattern.match(line)
pattern_match(cls, line) ==
    CASE cls = "EmptyLine" -> empty_line(line)
      [] cls = "Header" -> any_header(line)
      [] cls = "HorizontalRule" -> horizontal_rule(line)
      [] cls = "CodeFence" -> code_fence(line)
      [] cls = "MathFence" -> math_fence(line)
      [] cls = "Blockquote" -> blockquote(line)
      [] cls = "ToDo" -> to_do(line)
      [] cls = "Done" -> done(line)
      [] cls = "Footnote" -> footnote(line)
      [] cls = "UnorderedListItem" -> unordered_list_item(line)
      [] cls = "NumberedListItem" -> numbered_list_item(line)
      [] cls = "LetteredListItem" -> lettered_list_item(line)
      [] cls = "TableDivider" -> table_divider(line)
      [] cls = "TableRow" -> table_row(line)

simple_token_types ==
    <<"EmptyLine", "Header", "HorizontalRule", "CodeFence", "MathFence",
      "Blockquote", "ToDo", "Done", "Footnote", "UnorderedListItem",
      "NumberedListItem", "LetteredListItem", "TableDivider", "TableRow">>

\* ------------------------------------------------------------------------
\* Pattern Classifier: the first recognizer that matches wins, else Text

\* the last recognizer that matches wins
classify_last_match(line) ==
    LET hits == {i \in 1..Len(simple_token_types) :
                    pattern_match(simple_token_types[i], line)}
    IN  IF hits = {} THEN "Text"
        ELSE simple_token_types[CHOOSE i \in hits : \A j \in hits : i >= j]

classify(line) ==
    LET hits == {i \in 1..Len(simple_token_types) :
                    pattern_match(simple_token_types[i], line)}
    IN  IF hits = {} THEN "Text"
        ELSE simple_token_types[CHOOSE i \in hits : \A j \in hits : i <= j]

\* ------------------------------------------------------------------------
\* Block Assembler: a stack of open builders [kind, content], innermost last

FenceOf == [CodeBlock |-> "CodeFence", MathBlock |-> "MathFence"]

BodyOf == [CodeBlock |-> "Code", MathBlock |-> "Math"]

\* the level of an open TextList: the level of its first item
open_level(builder) == builder.content[1].level

push(st, cls, token) == Append(st, [kind |-> cls, content |-> <<token>>])

append_top(st, token) ==
    [st EXCEPT ![Len(st)].content = Append(@, token)]

\* fold the innermost builder into its parent, or into the top level
close_top(st, out) ==
    LET builder == st[Len(st)]
        block == construct_block(builder.kind, builder.content)
        rest == SubSeq(st, 1, Len(st) - 1)
    IN  IF rest = <<>>
        THEN [stack |-> rest, ast |-> Append(out, block)]
        ELSE [stack |-> append_top(rest, block), ast |-> out]

RECURSIVE close_all(_, _)
close_all(st, out) ==
    IF st = <<>> THEN [stack |-> st, ast |-> out]
    ELSE LET r == close_top(st, out) IN close_all(r.stack, r.ast)

\* close every open list deeper than level
RECURSIVE close_lists_above(_, _, _)
close_lists_above(st, out, level) ==
    IF st # <<>> /\ open_level(st[Len(st)]) > level
    THEN LET r == close_top(st, out)
         IN  close_lists_above(r.stack, r.ast, level)
    ELSE [stack |-> st, ast |-> out]

\* every line of a run in a block of its own
fold_run_apart(st, out, token, block_cls) ==
    LET r == close_all(st, out)
    IN  [stack |-> push(r.stack, block_cls, token), ast |-> r.ast]

\* a run of same-kind lines (blockquotes, table parts) folds into one block
fold_run(st, out, token, block_cls) ==
    IF st # <<>> /\ st[Len(st)].kind = block_cls
    THEN [stack |-> append_top(st, token), ast |-> out]
    ELSE LET r == close_all(st, out)
         IN  [stack |-> push(r.stack, block_cls, token), ast |-> r.ast]

\* a list item joins the open list of its level, opens a sublist, or closes
\* the deeper lists first
fold_list_item(st, out, token) ==
    LET r0 == IF st # <<>> /\ st[Len(st)].kind # "TextList"
              THEN close_all(st, out)
              ELSE [stack |-> st, ast |-> out]
        r == close_lists_above(r0.stack, r0.ast, token.level)
    IN  IF r.stack # <<>> /\ open_level(r.stack[Len(r.stack)]) = token.level
        THEN [stack |-> append_top(r.stack, token), ast |-> r.ast]
        ELSE [stack |-> push(r.stack, "TextList", token), ast |-> r.ast]

\* fold one classified token
fold(st, out, token) ==
    CASE token.kind = "Blockquote" ->
            fold_run(st, out, token, "BlockquoteBlock")
      [] issubclass(token.kind, "TablePart") ->
            fold_run(st, out, token, "Table")
      [] token.kind = "CodeFence" ->
            LET r == close_all(st, out)
            IN  [stack |-> push(r.stack, "CodeBlock", token), ast |-> r.ast]
      [] token.kind = "MathFence" ->
            LET r == close_all(st, out)
            IN  [stack |-> push(r.stack, "MathBlock", token), ast |-> r.ast]
      [] issubclass(token.kind, "TextListItem") ->
            fold_list_item(st, out, token)
      [] OTHER ->
            LET r == close_all(st, out)
            IN  [stack |-> r.stack, ast |-> Append(r.ast, token)]

\* whether the innermost open builder is a fenced block
in_fence(st) == st # <<>> /\ st[Len(st)].kind \in DOMAIN FenceOf

\* the line inside a fence classified like any other line
fence_line_classified(st, out, line) ==
    LET block_cls == st[Len(st)].kind
    IN  IF pattern_match(FenceOf[block_cls], line)
        THEN close_top(append_top(st, construct(FenceOf[block_cls], line)),
                       out)
        ELSE [stack |-> append_top(st, construct(classify(line), line)),
              ast |-> out]

\* inside a fence the line is not classified: it is the closing fence if it
\* matches the fence pattern of the same family, a Code or Math line if not
fence_line(st, out, line) ==
    LET block_cls == st[Len(st)].kind
    IN  IF pattern_match(FenceOf[block_cls], line)
        THEN close_top(append_top(st, construct(FenceOf[block_cls], line)),
                       out)
        ELSE [stack |-> append_top(st, construct(BodyOf[block_cls], line)),
              ast |-> out]

\* one line of the document: [stack, ast, error]
process_line(st, out, line) ==
    IF in_fence(st)
    THEN LET r == fence_line(st, out, line)
         IN  [stack |-> r.stack, ast |-> r.ast, error |-> "none"]
    ELSE LET token == construct(classify(line), line)
         IN  IF raised(token)
             THEN [stack |-> st, ast |-> out, error |-> token.kind]
             ELSE LET r == fold(st, out, token)
                  IN  [stack |-> r.stack, ast |-> r.ast, error |-> "none"]

\* the lines of a document from the given assembler state on, then the end
\* of the document: [ast, error]
RECURSIVE assemble_lines(_, _, _)
assemble_lines(ls, st, out) ==
    IF ls = <<>>
    THEN [ast |-> close_all(st, out).ast, error |-> "none"]
    ELSE LET r == process_line(st, out, Head(ls))
         IN  IF r.error # "none"
             THEN [ast |-> <<>>, error |-> r.error]
             ELSE assemble_lines(Tail(ls), r.stack, r.ast)

\* lexer and block assembler on a whole text
tokenize(document) == assemble_lines(split(document, <<>>), <<>>, <<>>)

\* ------------------------------------------------------------------------
\* Section Splitter

\* no attribute constraint
NoAttrs == <<>>

\* a split point chosen by kind alone, the attributes ignored
is_split_point_by_kind(token, type, attrs) == issubclass(token.kind, type)

is_split_point(token, type, attrs) ==
    /\ issubclass(token.kind, type)
    /\ \A a \in DOMAIN attrs : a \in DOMAIN token /\ token[a] = attrs[a]

\* one pass over the top-level tokens: pre is the preamble so far, groups
\* the token lists of the sections so far
RECURSIVE split_scan(_, _, _, _, _)
split_scan(tokens_, type, attrs, pre, groups) ==
    IF tokens_ = <<>>
    THEN [preamble |-> pre,
          sections |-> [i \in 1..Len(groups) |-> Section(groups[i])]]
    ELSE LET token == Head(tokens_)
         IN  IF is_split_point(token, type, attrs)
             THEN split_scan(Tail(tokens_), type, attrs, pre,
                             Append(groups, <<token>>))
             ELSE IF groups = <<>>
             THEN split_scan(Tail(tokens_), type, attrs, Append(pre, token),
                             groups)
             ELSE split_scan(Tail(tokens_), type, attrs, pre,
                             [groups EXCEPT ![Len(groups)] = Append(@, token)])

split_sections(tokens_, type, attrs) ==
    split_scan(tokens_, type, attrs, <<>>, <<>>)

\* ------------------------------------------------------------------------
\* Token Type Registry

\* cls.__name__ of every class bound in the tokens module
class_name == [
    Any |-> <<"A","n","y">>,
    Block |-> <<"B","l","o","c","k">>,
    Blockquote |-> <<"B","l","o","c","k","q","u","o","t","e">>,
    BlockquoteBlock |-> <<"B","l","o","c","k","q","u","o","t","e","B","l","o","c","k">>,
    Code |-> <<"C","o","d","e">>,
    CodeBlock |-> <<"C","o","d","e","B","l","o","c","k">>,
    CodeFence |-> <<"C","o","d","e","F","e","n","c","e">>,
    Done |-> <<"D","o","n","e">>,
    EmptyLine |-> <<"E","m","p","t","y","L","i","n","e">>,
    Fence |-> <<"F","e","n","c","e">>,
    Footnote |-> <<"F","o","o","t","n","o","t","e">>,
    Header |-> <<"H","e","a","d","e","r">>,
    HorizontalRule |-> <<"H","o","r","i","z","o","n","t","a","l","R","u","l","e">>,
    LetteredListItem |-> <<"L","e","t","t","e","r","e","d","L","i","s","t","I","t","e","m">>,
    Math |-> <<"M","a","t","h">>,
    MathBlock |-> <<"M","a","t","h","B","l","o","c","k">>,
    MathFence |-> <<"M","a","t","h","F","e","n","c","e">>,
    NumberedListItem |-> <<"N","u","m","b","e","r","e","d","L","i","s","t","I","t","e","m">>,
    OrderedListItem |-> <<"O","r","d","e","r","e","d","L","i","s","t","I","t","e","m">>,
    Section |-> <<"S","e","c","t","i","o","n">>,
    Table |-> <<"T","a","b","l","e">>,
    TableDivider |-> <<"T","a","b","l","e","D","i","v","i","d","e","r">>,
    TablePart |-> <<"T","a","b","l","e","P","a","r","t">>,
    TableRow |-> <<"T","a","b","l","e","R","o","w">>,
    Text |-> <<"T","e","x","t">>,
    TextList |-> <<"T","e","x","t","L","i","s","t">>,
    TextListItem |-> <<"T","e","x","t","L","i","s","t","I","t","e","m">>,
    ToDo |-> <<"T","o","D","o">>,
    Token |-> <<"T","o","k","e","n">>,
    UnorderedListItem |-> <<"U","n","o","r","d","e","r","e","d","L","i","s","t","I","t","e","m">>,
    ABC |-> <<"A","B","C">>,
    ModuleType |-> <<"m","o","d","u","l","e">>]

\* the classes inspect.getmembers finds in the tokens module, sorted by the
\* name they are bound to; typing.Any is a class only in some interpreters
module_classes(with_any) ==
    <<"ABC">> \o (IF with_any THEN <<"Any">> ELSE <<>>) \o
    <<"Block", "Blockquote", "BlockquoteBlock", "Code", "CodeBlock",
      "CodeFence", "Done", "EmptyLine", "Fence", "Footnote", "Header",
      "HorizontalRule", "LetteredListItem", "Math", "MathBlock", "MathFence",
      "ModuleType", "NumberedListItem", "OrderedListItem", "Section",
      "Table", "TableDivider", "TablePart", "TableRow", "Text", "TextList",
      "TextListItem", "ToDo", "Token", "UnorderedListItem">>

is_token_type(cls) ==
    class_name[cls] \notin {<<"A","B","C">>, <<"m","o","d","u","l","e">>}

get_all_token_types(with_any) ==
    LET members == module_classes(with_any)
        kept[i \in 0..Len(members)] ==
            IF i = 0 THEN <<>>
            ELSE IF is_token_type(members[i])
            THEN Append(kept[i - 1], members[i])
            ELSE kept[i - 1]
    IN  kept[Len(members)]

\* the loop with the name started over at each capital
RECURSIVE name_letters_reset(_, _, _)
name_letters_reset(ident, i, token_name) ==
    IF i > Len(ident) THEN token_name
    ELSE LET letter == ident[i]
             spaced == IF i # 1 /\ isupper(letter)
                       THEN <<" ">>
                       ELSE token_name
         IN  name_letters_reset(ident, i + 1, Append(spaced, letter))

\* the loop of get_token_type_name from letter i (1-based) on
RECURSIVE name_letters(_, _, _)
name_letters(ident, i, token_name) ==
    IF i > Len(ident) THEN token_name
    ELSE LET letter == ident[i]
             spaced == IF i # 1 /\ isupper(letter)
                       THEN Append(token_name, " ")
                       ELSE token_name
         IN  name_letters(ident, i + 1, Append(spaced, letter))

\* the loop with a space before every capital, the first one too
RECURSIVE name_letters_all_spaced(_, _, _)
name_letters_all_spaced(ident, i, token_name) ==
    IF i > Len(ident) THEN token_name
    ELSE LET letter == ident[i]
             spaced == IF isupper(letter)
                       THEN Append(token_name, " ")
                       ELSE token_name
         IN  name_letters_all_spaced(ident, i + 1, Append(spaced, letter))

get_token_type_name_all_spaced(token_type) ==
    lower(name_letters_all_spaced(class_name[token_type], 1, <<>>))

get_token_type_name(token_type) ==
    lower(name_letters(class_name[token_type], 1, <<>>))

\* get_token_type_names with no filter predicate
get_token_type_names(all_token_types) ==
    [i \in 1..Len(all_token_types) |->
        get_token_type_name(all_token_types[i])]

\* the lookup falling back to the default split type
get_token_type_or_default(chosen_name, with_any) ==
    LET all_token_types == get_all_token_types(with_any)
        hits == {i \in 1..Len(all_token_types) :
                    get_token_type_name(all_token_types[i]) = chosen_name}
    IN  IF hits = {} THEN [kind |-> "type", value |-> "Header"]
        ELSE [kind |-> "type",
              value |-> all_token_types[CHOOSE i \in hits :
                                           \A j \in hits : i <= j]]

get_token_type(chosen_name, with_any) ==
    LET all_token_types == get_all_token_types(with_any)
        token_type_names == get_token_type_names(all_token_types)
        hits == {i \in 1..Len(all_token_types) :
                    token_type_names[i] = chosen_name}
    IN  IF hits = {} THEN ValueError
        ELSE [kind |-> "type",
              value |-> all_token_types[CHOOSE i \in hits :
                                           \A j \in hits : i <= j]]

\* ------------------------------------------------------------------------
\* Python values held by the settings: [bool], [int], [str] (text as a
\* sequence of characters), [none], [type] (a class of the tokens module) and
\* [ref], a reference to a mutable object.  A mutable object is a [list] or a
\* [dict] (a function from keys to values).

None == [none |-> TRUE]

\* references to the list and the dict literals of __DEFAULT_SETTINGS, and to
\* the list and the dict that a later assignment or json.load creates
DefaultNoteTypes == [ref |-> "default note_types"]

DefaultSplitAttrs == [ref |-> "default split_attrs"]

OwnNoteTypes == [ref |-> "note_types"]

OwnSplitAttrs == [ref |-> "split_attrs"]

is_ref(value) == "ref" \in DOMAIN value

\* the mutable objects that exist once the settings module is imported
DEFAULT_OBJECTS ==
    ("default note_types" :>
        [list |-> <<[str |-> <<".", "m", "d">>], [str |-> <<".", "m", "a", "r", "k", "d", "o", "w", "n">>], [str |-> <<".", "t", "x", "t">>]>>])
    @@ ("default split_attrs" :> [dict |-> ([str |-> <<"l", "e", "v", "e", "l">>] :> [int |-> 2])])

DEFAULT_SETTINGS ==
    [backlink |-> [bool |-> FALSE],
     copy_frontmatter |-> [bool |-> FALSE],
     copy_global_tags |-> [bool |-> FALSE],
     parse_blocks |-> [bool |-> TRUE],
     create_index_file |-> [bool |-> TRUE],
     destination_folder_path |-> [str |-> <<>>],
     file_id_format |-> [str |-> <<"%", "Y", "%", "M", "%", "D", "%", "h", "%", "m", "%", "s">>],
     file_id_regex |-> [str |-> <<"\\", "d", "{", "1", "4", "}">>],
     file_name_format |-> [str |-> <<"%", "i", "d">>],
     note_types |-> DefaultNoteTypes,
     replace_split_contents |-> [bool |-> FALSE],
     source_folder_path |-> [str |-> <<>>],
     split_attrs |-> DefaultSplitAttrs,
     split_keyword |-> [str |-> <<"#", "s", "p", "l", "i", "t">>],
     split_type |-> [type |-> "Header"]]

\* dict.update(other)
update(d, other) ==
    [k \in DOMAIN d \cup DOMAIN other |->
        IF k \in DOMAIN other THEN other[k] ELSE d[k]]

\* d[key] = value
setitem(d, key, value) == update(d, key :> value)

\* the value a settings value stands for, references followed
deref(value, objs) == IF is_ref(value) THEN objs[value.ref] ELSE value

\* the settings with every reference followed
snapshot(s, objs) == [k \in DOMAIN s |-> deref(s[k], objs)]

\* the objects still referred to: those of __DEFAULT_SETTINGS and those the
\* settings refer to
live(s, objs) ==
    [id \in DOMAIN DEFAULT_OBJECTS
               \cup {s[k].ref : k \in {j \in DOMAIN s : is_ref(s[j])}} |->
        objs[id]]

\* no save_settings call to remember
NotSaved == [outcome |-> "none"]

\* ------------------------------------------------------------------------
\* JSON: [bool], [int], [str], [null], [array] and [object], the keys of an
\* object being strings

Decimal == <<"0", "1", "2", "3", "4", "5", "6", "7", "8", "9">>

\* the key json.dump writes for a dict key: None becomes "null", an int its
\* decimal digits (one digit here), a str is kept
json_key(key) ==
    IF "none" \in DOMAIN key THEN [str |-> <<"n", "u", "l", "l">>]
    ELSE IF "int" \in DOMAIN key THEN [str |-> <<Decimal[key.int + 1]>>]
    ELSE key

json_scalar(value) ==
    IF "none" \in DOMAIN value THEN [null |-> TRUE] ELSE value

\* json.dump of one value of the settings
json_value(value) ==
    IF "list" \in DOMAIN value
    THEN [array |-> [i \in 1..Len(value.list) |-> json_scalar(value.list[i])]]
    ELSE IF "dict" \in DOMAIN value
    THEN [object |->
             [jk \in {json_key(k) : k \in DOMAIN value.dict} |->
                 json_scalar(value.dict[
                     CHOOSE k \in DOMAIN value.dict : json_key(k) = jk])]]
    ELSE json_scalar(value)

\* json.dump(settings, file)
json_dump(s, objs) == [k \in DOMAIN s |-> json_value(deref(s[k], objs))]

python_scalar(json) ==
    IF "null" \in DOMAIN json THEN None ELSE json

\* the Python object json.load builds for one JSON value
python_value(json) ==
    IF "array" \in DOMAIN json
    THEN [list |-> [i \in 1..Len(json.array) |-> python_scalar(json.array[i])]]
    ELSE IF "object" \in DOMAIN json
    THEN [dict |-> [k \in DOMAIN json.object |->
                       python_scalar(json.object[k])]]
    ELSE python_scalar(json)

is_container(json) == "array" \in DOMAIN json \/ "object" \in DOMAIN json

\* settings.update(json.load(file)): a list or dict of the file is a new
\* object, held under the name of its key
json_load_settings(json, s) ==
    update(s, [k \in DOMAIN json |->
                  IF is_container(json[k]) THEN [ref |-> k]
                  ELSE python_scalar(json[k])])

json_load_objects(json, objs) ==
    update(objs, [k \in {j \in DOMAIN json : is_container(json[j])} |->
                     python_value(json[k])])

\* settings.json: missing, not decodable, or a JSON object
Absent == [state |-> "absent"]

Undecodable == [state |-> "undecodable"]

\* ------------------------------------------------------------------------
\* save_settings, load_settings, reset_settings: each gives the settings,
\* the objects, the file and the outcome ("returned" or the exception) that
\* the call leaves behind

\* save_settings when open (io = "open fails") or the write (io = "write
\* fails") raises OSError, or neither does
save_settings(s, objs, f, io) ==
    IF "split_type" \notin DOMAIN s
    THEN [settings |-> s, objects |-> objs, file |-> f,
          outcome |-> KeyError.kind]
    ELSE LET temp == s["split_type"]
         IN  IF "type" \notin DOMAIN temp
             THEN [settings |-> s, objects |-> objs, file |-> f,
                   outcome |-> AttributeError.kind]
             ELSE LET named ==
                          setitem(s, "split_type",
                                  [str |-> get_token_type_name(temp.type)])
                  IN  CASE io = "open fails" ->
                              [settings |-> named, objects |-> objs,
                               file |-> f, outcome |-> OSError.kind]
                        [] io = "write fails" ->
                              [settings |-> named, objects |-> objs,
                               file |-> Undecodable, outcome |-> OSError.kind]
                        [] OTHER ->
                              [settings |-> setitem(named, "split_type", temp),
                               objects |-> objs,
                               file |-> [state |-> "json",
                                         json |-> json_dump(named, objs)],
                               outcome |-> "returned"]

\* the else branch of load_settings, after settings.update(json.load(file))
load_settings_else(s, objs, f, with_any) ==
    IF "split_attrs" \notin DOMAIN s
    THEN [settings |-> s, objects |-> objs, file |-> f,
          outcome |-> KeyError.kind]
    ELSE LET no_attrs == [str |-> <<"n", "u", "l", "l">>] \in DOMAIN deref(s["split_attrs"], objs).dict
             s1 == IF no_attrs THEN setitem(s, "split_attrs", OwnSplitAttrs)
                   ELSE s
             objs1 == IF no_attrs
                      THEN setitem(objs, OwnSplitAttrs.ref,
                                   [dict |-> (None :> [str |-> <<>>])])
                      ELSE objs
         IN  IF "split_type" \notin DOMAIN s1
             THEN [settings |-> s1, objects |-> objs1, file |-> f,
                   outcome |-> KeyError.kind]
             ELSE LET chosen == s1["split_type"]
                      type_ == IF "str" \in DOMAIN chosen
                               THEN get_token_type(chosen.str, with_any)
                               ELSE ValueError
                  IN  IF raised(type_)
                      THEN [settings |-> s1, objects |-> objs1, file |-> f,
                            outcome |-> type_.kind]
                      ELSE [settings |->
                                setitem(s1, "split_type",
                                        [type |-> type_.value]),
                            objects |-> objs1, file |-> f,
                            outcome |-> "returned"]

load_settings(s, objs, f, with_any) ==
    IF f.state \in {"absent", "undecodable"}
    THEN [settings |-> update(s, DEFAULT_SETTINGS), objects |-> objs,
          file |-> f, outcome |-> "returned"]
    ELSE load_settings_else(json_load_settings(f.json, s),
                            json_load_objects(f.json, objs), f, with_any)

reset_settings(s, objs, f) ==
    [settings |-> update(<<>>, DEFAULT_SETTINGS), objects |-> objs,
     file |-> f, outcome |-> "returned"]

\* ------------------------------------------------------------------------
\* Inputs

LineFixtures ==
    { <<>>,
      <<"#", " ", "h">>,
      <<"#", "#", " ", "h">>,
      <<"t">>,
      <<"~", "~", "~">>,
      <<"$", "$">>,
      <<"-", " ", "a">>,
      <<" ", " ", "-", " ", "a">> ,
      <<">", " ", "q">>,
      <<"|", "a", "|">> }

\* the splitting example: Header(1), Text, Header(2), Text, Header(2), Text
SplitExample ==
    join(<< <<"#", " ", "I">>, <<"t">>, <<"#", "#", " ", "A">>, <<"t">>,
            <<"#", "#", " ", "B">>, <<"t">> >>)

\* the same outline with blank lines in place of the text lines
SplitOutline ==
    join(<< <<"#", " ", "I">>, <<>>, <<"#", "#", " ", "A">>, <<>>,
            <<"#", "#", " ", "B">>, <<>> >>)

\* the list nesting example: list items at levels 0, 0, 2, 2, 4, 0
ListExample ==
    join(<< <<"-", " ", "a">>, <<"-", " ", "b">>,
            <<" ", " ", "-", " ", "c">>, <<" ", " ", "-", " ", "d">>,
            <<" ", " ", " ", " ", "-", " ", "e">>, <<"-", " ", "f">> >>)

\* a header-looking line between two code fences, after a header
FenceExample ==
    join(<< <<"#", " ", "h">>, <<Backtick, Backtick, Backtick, "p", "y">>,
            <<"#", " ", "n">>, <<Backtick, Backtick, Backtick>>, <<>> >>)

Examples == {SplitExample, SplitOutline, ListExample, FenceExample}

Documents ==
    {join(ls) : ls \in UNION {[1..n -> LineFixtures] : n \in 1..MaxLines}}
        \cup Examples

\* every line of at most n characters over an alphabet
RECURSIVE lines_upto(_, _)
lines_upto(alphabet, n) ==
    IF n = 0 THEN {<<>>}
    ELSE LET shorter == lines_upto(alphabet, n - 1)
         IN  shorter \cup {Append(l, c) : l \in shorter, c \in alphabet}

\* lines that more than one recognizer matches, and indented ones
OverlapFixtures ==
    { <<"-", " ", "[", "x", "]", " ", "a">>,
      <<"-", " ", "[", " ", "]", " ", "a">>,
      <<" ", " ", "*", " ", "[", "x", "]", " ", "a">>,
      <<"|", "-", "|">>,
      <<"-", "-", "-">>,
      <<"a", ".", " ", "b">>,
      <<"1", ".", " ", "b">>,
      <<"\t", "\t", "-", " ", "a">>,
      <<"\t", " ", " ", "-", " ", "a">>,
      <<"[", "^", "1", "]", ":", " ", "n">> }

\* lines handed to the constructors and to the classifier
Lines ==
    lines_upto({" ", "\t", "a"}, MaxChars)
        \cup LineFixtures \cup OverlapFixtures

\* the token classes a line can be handed to
LineTypes ==
    {simple_token_types[i] : i \in 1..Len(simple_token_types)}
        \cup {"Text", "Code", "Math"}

BlockTypes ==
    {"BlockquoteBlock", "TextList", "Table", "CodeBlock", "MathBlock",
     "Section"}

\* tokens a Block constructor is handed
ChildFixtures ==
    { Header(<<"#", " ", "h">>), EmptyLine(<<>>),
      CodeFence(<<"~", "~", "~">>), TableRow(<<"|", "a", "|">>) }

\* the token lists a Block constructor is handed: none, one or two tokens
ChildLists ==
    {<<>>} \cup {<<a>> : a \in ChildFixtures}
        \cup {<<a, b>> : a \in ChildFixtures, b \in ChildFixtures}

SplitTypes == {"Header", "EmptyLine", "Token", "Block", "TableRow", "Code"}

SplitAttrs == {NoAttrs, [level |-> 1], [level |-> 2]}

\* names handed to get_token_type besides the name computed last: names of
\* the catalog, class identifiers as they are and strings that name nothing
NameInputs ==
    {get_token_type_name(k) :
        k \in {"Header", "ToDo", "UnorderedListItem", "Token", "Any"}}
        \cup {class_name[k] : k \in {"Header", "ToDo"}}
        \cup {<<>>, <<"n","o","p","e">>, <<"t","o","d","o">>,
              <<" ","h","e","a","d","e","r">>}

\* ------------------------------------------------------------------------
\* The pipeline: lexer, block assembler, section splitter

TokenIdle ==
    /\ made_cls = "none"
    /\ made_arg = <<>>
    /\ made_token = [kind |-> "none"]
    /\ asked_line = <<>>
    /\ line_type = "none"

SettingsIdle ==
    /\ settings = <<>>
    /\ objects = DEFAULT_OBJECTS
    /\ file = Absent
    /\ last_call = "none"
    /\ outcome = "none"
    /\ before_save = NotSaved

RegistryIdle ==
    /\ any_is_class = FALSE
    /\ last_type = "none"
    /\ last_name = <<>>
    /\ asked_name = <<>>
    /\ found = [kind |-> "none"]

PipelineIdle ==
    /\ pc = "start"
    /\ lines = <<>>
    /\ pos = 1
    /\ stack = <<>>
    /\ ast = <<>>
    /\ error = "none"
    /\ split_type = "Header"
    /\ split_attrs = [level |-> 2]
    /\ preamble = <<>>
    /\ sections = <<>>

Init ==
    /\ text \in Documents
    /\ PipelineIdle
    /\ RegistryIdle
    /\ TokenIdle
    /\ SettingsIdle

\* Lexer: split the document on the line terminator
Lex ==
    /\ pc = "start"
    /\ lines' = split(text, <<>>)
    /\ pos' = 1
    /\ pc' = "assemble"
    /\ UNCHANGED <<text, stack, ast, error, split_type, split_attrs,
                   preamble, sections>>
    /\ UNCHANGED registry_vars
    /\ UNCHANGED <<token_vars, settings_vars>>

\* classify, construct and fold the next line
ProcessLine ==
    /\ pc = "assemble"
    /\ pos <= Len(lines)
    /\ LET r == process_line(stack, ast, lines[pos])
       IN  /\ stack' = r.stack
           /\ ast' = r.ast
           /\ error' = r.error
           /\ pc' = IF r.error = "none" THEN "assemble" ELSE "failed"
           /\ pos' = IF r.error = "none" THEN pos + 1 ELSE pos
    /\ UNCHANGED <<text, lines, split_type, split_attrs, preamble, sections>>
    /\ UNCHANGED registry_vars
    /\ UNCHANGED <<token_vars, settings_vars>>

\* end of document: every builder still open is closed
CloseAtEnd ==
    /\ pc = "assemble"
    /\ pos > Len(lines)
    /\ LET r == close_all(stack, ast)
       IN  /\ stack' = r.stack
           /\ ast' = r.ast
    /\ pc' = "assembled"
    /\ UNCHANGED <<text, lines, pos, error, split_type, split_attrs,
                   preamble, sections>>
    /\ UNCHANGED registry_vars
    /\ UNCHANGED <<token_vars, settings_vars>>

\* Section Splitter on the assembled top-level sequence
Split ==
    /\ pc = "assembled"
    /\ \E type \in SplitTypes, attrs \in SplitAttrs :
          LET r == split_sections(ast, type, attrs)
          IN  /\ split_type' = type
              /\ split_attrs' = attrs
              /\ preamble' = r.preamble
              /\ sections' = r.sections
    /\ pc' = "done"
    /\ UNCHANGED <<text, lines, pos, stack, ast, error>>
    /\ UNCHANGED registry_vars
    /\ UNCHANGED <<token_vars, settings_vars>>

Next ==
    \/ Lex
    \/ ProcessLine
    \/ CloseAtEnd
    \/ Split

Spec == Init /\ [][Next]_vars

\* ------------------------------------------------------------------------
\* The registry: name_of and kind_of calls

SettingsInit ==
    /\ text = <<>>
    /\ PipelineIdle
    /\ any_is_class \in BOOLEAN
    /\ last_type = "none"
    /\ last_name = <<>>
    /\ asked_name = <<>>
    /\ found = [kind |-> "none"]
    /\ TokenIdle
    /\ SettingsIdle

GetTokenTypeName ==
    /\ \E i \in 1..Len(module_classes(any_is_class)) :
          LET token_type == module_classes(any_is_class)[i]
          IN  /\ last_type' = token_type
              /\ last_name' = get_token_type_name(token_type)
    /\ UNCHANGED <<any_is_class, asked_name, found>>
    /\ UNCHANGED pipeline_vars
    /\ UNCHANGED <<token_vars, settings_vars>>

GetTokenType ==
    /\ \E name \in NameInputs \cup {last_name} :
          /\ asked_name' = name
          /\ found' = get_token_type(name, any_is_class)
    /\ UNCHANGED <<any_is_class, last_type, last_name>>
    /\ UNCHANGED pipeline_vars
    /\ UNCHANGED <<token_vars, settings_vars>>

SettingsNext ==
    \/ GetTokenTypeName
    \/ GetTokenType

SettingsSpec == SettingsInit /\ [][SettingsNext]_vars

\* ------------------------------------------------------------------------
\* Direct calls: the classifier on a line, a token class on a line, a Block
\* class on a list of tokens.  The variables hold the last call only.

TokenInit ==
    /\ text = <<>>
    /\ PipelineIdle
    /\ RegistryIdle
    /\ TokenIdle
    /\ SettingsIdle

ClassifyLine ==
    /\ \E line \in Lines :
          /\ asked_line' = line
          /\ line_type' = classify(line)
    /\ made_cls' = "none"
    /\ made_arg' = <<>>
    /\ made_token' = [kind |-> "none"]
    /\ UNCHANGED <<pipeline_vars, registry_vars, settings_vars>>

ConstructToken ==
    /\ \E cls \in LineTypes, line \in Lines :
          /\ made_cls' = cls
          /\ made_arg' = line
          /\ made_token' = construct(cls, line)
    /\ asked_line' = <<>>
    /\ line_type' = "none"
    /\ UNCHANGED <<pipeline_vars, registry_vars, settings_vars>>

ConstructBlock ==
    /\ \E cls \in BlockTypes, tokens_ \in ChildLists :
          /\ made_cls' = cls
          /\ made_arg' = tokens_
          /\ made_token' = construct_block(cls, tokens_)
    /\ asked_line' = <<>>
    /\ line_type' = "none"
    /\ UNCHANGED <<pipeline_vars, registry_vars, settings_vars>>

TokenNext ==
    \/ ClassifyLine
    \/ ConstructToken
    \/ ConstructBlock

TokenSpec == TokenInit /\ [][TokenNext]_vars

\* ------------------------------------------------------------------------
\* The settings: assignments, in-place changes, reset, save and load

\* values assigned to a key: settings[key] = value
Assignable ==
    [split_type |-> {[type |-> "ToDo"]},
     split_attrs |-> {[dict |-> (None :> [str |-> <<>>])],
                      [dict |-> (None :> [str |-> <<"x">>])]}]

\* keys and values stored into the split_attrs mapping in place
AttrChanges == {<<[str |-> <<"l", "e", "v", "e", "l">>], [int |-> 3]>>}

\* the extension appended to the note_types list in place
AppendedNoteType == [str |-> <<".", "t", "e", "x", "t">>]

ConfigInit ==
    /\ text = <<>>
    /\ PipelineIdle
    /\ RegistryIdle
    /\ TokenIdle
    /\ settings = <<>>
    /\ objects = DEFAULT_OBJECTS
    /\ file = Absent
    /\ last_call = "none"
    /\ outcome = "none"
    /\ before_save = NotSaved

\* what every operation on the settings records
Called(name) ==
    /\ last_call' = name
    /\ UNCHANGED <<pipeline_vars, registry_vars, token_vars>>

\* settings[key] = value; a list or dict value is a new object
SetItem ==
    /\ \E key \in DOMAIN Assignable :
          \E value \in Assignable[key] :
              IF "list" \in DOMAIN value \/ "dict" \in DOMAIN value
              THEN /\ settings' = setitem(settings, key, [ref |-> key])
                   /\ objects' = live(settings', setitem(objects, key, value))
              ELSE /\ settings' = setitem(settings, key, value)
                   /\ objects' = live(settings', objects)
    /\ outcome' = "returned"
    /\ before_save' = NotSaved
    /\ file' = file
    /\ Called("setitem")

\* settings['split_attrs'][key] = value
ModifySplitAttrs ==
    /\ "split_attrs" \in DOMAIN settings
    /\ \E change \in AttrChanges :
          objects' = [objects EXCEPT ![settings["split_attrs"].ref].dict =
                                         setitem(@, change[1], change[2])]
    /\ outcome' = "returned"
    /\ before_save' = NotSaved
    /\ UNCHANGED <<settings, file>>
    /\ Called("modify split_attrs")

\* settings['note_types'].append(extension), for an extension that the list
\* does not hold yet
ModifyNoteTypes ==
    /\ "note_types" \in DOMAIN settings
    /\ \A i \in 1..Len(objects[settings["note_types"].ref].list) :
          objects[settings["note_types"].ref].list[i] # AppendedNoteType
    /\ objects' = [objects EXCEPT ![settings["note_types"].ref].list =
                                      Append(@, AppendedNoteType)]
    /\ outcome' = "returned"
    /\ before_save' = NotSaved
    /\ UNCHANGED <<settings, file>>
    /\ Called("modify note_types")

ResetSettings ==
    /\ LET r == reset_settings(settings, objects, file)
       IN  /\ settings' = r.settings
           /\ objects' = live(r.settings, r.objects)
           /\ file' = r.file
           /\ outcome' = r.outcome
    /\ before_save' = NotSaved
    /\ Called("reset_settings")

SaveSettings ==
    /\ \E io \in {"no failure", "open fails", "write fails"} :
          LET r == save_settings(settings, objects, file, io)
          IN  /\ settings' = r.settings
              /\ objects' = live(r.settings, r.objects)
              /\ file' = r.file
              /\ outcome' = r.outcome
              /\ before_save' = [outcome |-> r.outcome,
                                 settings |-> snapshot(settings, objects)]
    /\ Called("save_settings")

LoadSettings ==
    /\ LET r == load_settings(settings, objects, file, any_is_class)
       IN  /\ settings' = r.settings
           /\ objects' = live(r.settings, r.objects)
           /\ file' = r.file
           /\ outcome' = r.outcome
    /\ before_save' = IF last_call = "save_settings" THEN before_save
                      ELSE NotSaved
    /\ Called("load_settings")

ConfigNext ==
    \/ SetItem
    \/ ModifySplitAttrs
    \/ ModifyNoteTypes
    \/ ResetSettings
    \/ SaveSettings
    \/ LoadSettings

ConfigSpec == ConfigInit /\ [][ConfigNext]_vars

\* ------------------------------------------------------------------------
\* Reading a result

Assembled == pc \in {"assembled", "done"}

\* the simple tokens under tokens_ in document order, each with the index
\* of its top-level ancestor, the kind of its parent and its depth
RECURSIVE leaves(_, _, _, _)
leaves(tokens_, top, parent, depth) ==
    IF tokens_ = <<>> THEN <<>>
    ELSE LET token == Head(tokens_)
             first == IF issubclass(token.kind, "Block")
                      THEN leaves(token.content, top, token.kind, depth + 1)
                      ELSE <<[token |-> token, top |-> top,
                              parent |-> parent, depth |-> depth]>>
         IN  first \o leaves(Tail(tokens_),
                             IF depth = 0 THEN top + 1 ELSE top,
                             parent, depth)

\* every simple token built so far: the top level, then the open builders
produced == leaves(ast \o stack, 1, "", 0)

\* the children of the sections, in order
RECURSIVE section_children(_)
section_children(secs) ==
    IF secs = <<>> THEN <<>>
    ELSE Head(secs).content \o section_children(Tail(secs))

\* the fence family open after a line, given the family open before it:
\* "none", "code" or "math"
fence_step(before, line) ==
    CASE before = "code" -> IF code_fence(line) THEN "none" ELSE "code"
      [] before = "math" -> IF math_fence(line) THEN "none" ELSE "math"
      [] OTHER ->
            LET cls == classify(line)
            IN  IF cls = "CodeFence" THEN "code"
                ELSE IF cls = "MathFence" THEN "math"
                ELSE "none"

\* the fence family open after each line of ls
RECURSIVE fence_scan(_, _, _)
fence_scan(ls, before, modes) ==
    IF ls = <<>> THEN modes
    ELSE LET after == fence_step(before, Head(ls))
         IN  fence_scan(Tail(ls), after, Append(modes, after))

fence_modes(ls) == fence_scan(ls, "none", <<>>)

\* the fence family open after line j, none before the first line
mode_at(modes, j) == IF j = 0 THEN "none" ELSE modes[j]

\* line j lies strictly between an opening fence and its closing fence
interior(modes, j, family) ==
    mode_at(modes, j - 1) = family /\ mode_at(modes, j) = family

\* the line that opened the fence line j lies in
opener(modes, j) ==
    CHOOSE o \in 1..j :
        /\ mode_at(modes, o - 1) = "none"
        /\ \A k \in o..j : modes[k] = modes[j]

\* ------------------------------------------------------------------------
\* C1: rendering the assembled tokens of a document gives the document back

\* C1 (round trip): whenever a document has been split into lines, turned
\* into tokens and assembled, rendering the top-level tokens in order gives
\* a text equal to the document.
C1_RoundTrip == pc = "assembled" => str_all(ast) = text

\* ------------------------------------------------------------------------
\* C2: the shape of the sections

\* every section starts with a split point and holds no other one, and the
\* preamble holds none
SectionShape ==
    pc = "done" =>
        /\ \A i \in 1..Len(sections) :
              /\ sections[i].content # <<>>
              /\ is_split_point(sections[i].content[1], split_type,
                                split_attrs)
              /\ \A j \in 2..Len(sections[i].content) :
                    ~is_split_point(sections[i].content[j], split_type,
                                    split_attrs)
        /\ \A j \in 1..Len(preamble) :
              ~is_split_point(preamble[j], split_type, split_attrs)

\* the kinds and header levels of a token list, -1 where there is no header
outline(tokens_) ==
    [i \in 1..Len(tokens_) |->
        <<tokens_[i].kind,
          IF tokens_[i].kind = "Header" THEN tokens_[i].level ELSE -1>>]

\* the splitting example runs to the end and, split on Header with
\* level 2, gives the preamble [Header(1), Text] and two sections
\* [Header(2), Text]
SplitExampleResult ==
    text = SplitExample =>
        /\ pc # "failed"
        /\ (pc = "done" /\ split_type = "Header"
                /\ split_attrs = [level |-> 2]) =>
              /\ outline(preamble) = << <<"Header", 1>>, <<"Text", -1>> >>
              /\ Len(sections) = 2
              /\ \A i \in 1..2 :
                    outline(sections[i].content)
                        = << <<"Header", 2>>, <<"Text", -1>> >>

\* C2 (section shape): the first child of every Section is a split point,
\* no other child and no preamble token is one, and the splitting example
\* [Header(1), Text, Header(2), Text, Header(2), Text] split on Header with
\* level 2 gives preamble [Header(1), Text] and two sections
\* [Header(2), Text].
C2_SectionShape == SectionShape /\ SplitExampleResult

\* ------------------------------------------------------------------------
\* C3: splitting conserves the tokens

\* no Section anywhere below tokens_
RECURSIVE no_section(_)
no_section(tokens_) ==
    \A i \in 1..Len(tokens_) :
        /\ tokens_[i].kind # "Section"
        /\ issubclass(tokens_[i].kind, "Block") =>
              no_section(tokens_[i].content)

superclass(k) == IF k \in DOMAIN base THEN base[k] ELSE k

\* the kinds that are target or specialize it, read off the class table
\* (no class is more than three steps below Token)
specializations(target) ==
    {k \in DOMAIN base \cup {target} :
        target \in {k, superclass(k), superclass(superclass(k)),
                    superclass(superclass(superclass(k)))}}

\* no top-level token has a kind of the target and the required attributes
no_match ==
    \A i \in 1..Len(ast) :
        \/ ast[i].kind \notin specializations(split_type)
        \/ \E a \in DOMAIN split_attrs :
              a \notin DOMAIN ast[i] \/ ast[i][a] # split_attrs[a]

\* C4 (zero matches): when no top-level token matches the configured kind
\* and attributes, the split returns no Section, a preamble equal to the
\* whole input, and no error.
C4_ZeroMatches ==
    (pc = "done" /\ no_match) =>
        /\ sections = <<>>
        /\ preamble = ast
        /\ error = "none"

\* a split on TableRow or Code of a document whose only such lines are
\* inside a Table or a CodeBlock
C4_Witness ==
    /\ pc = "done"
    /\ no_match
    /\ ast # <<>>
    /\ \E j \in 1..Len(produced) :
          /\ produced[j].token.kind = split_type
          /\ produced[j].depth > 0
    /\ sections = <<>>

\* ------------------------------------------------------------------------
\* C5: fence opacity

FamilyBlock == [code |-> "CodeBlock", math |-> "MathBlock"]

FamilyBody == [code |-> "Code", math |-> "Math"]

\* every interior line of a fence, by the fence modes of the lines, is in
\* made a Code or Math token of that line, directly inside the block that
\* holds the opening fence
opaque(made, mode) ==
    \A j \in 1..Len(made) :
        \A family \in {"code", "math"} :
            interior(mode, j, family) =>
                /\ made[j].token = construct(FamilyBody[family], lines[j])
                /\ made[j].parent = FamilyBlock[family]
                /\ made[j].depth = 1
                /\ made[j].top = made[opener(mode, j)].top
                /\ made[opener(mode, j)].parent = FamilyBlock[family]

\* C5 (fence opacity): at every point of a run, each processed line has one
\* token, and a line strictly between an opening CodeFence (MathFence) and
\* its closing fence is a Code (Math) token with that line as content,
\* directly inside the CodeBlock (MathBlock) that holds its opening fence;
\* so it is never a Header and never a top-level token.
C5_FenceOpacity ==
    /\ pc \in {"assemble", "assembled", "done"} => Len(produced) = pos - 1
    /\ opaque(produced, fence_modes(lines))

\* a header-looking line between two code fences, held as Code
C5_Witness ==
    /\ Assembled
    /\ \E j \in 1..Len(produced) :
          /\ interior(fence_modes(lines), j, "code")
          /\ any_header(lines[j])
          /\ j < Len(lines)
          /\ code_fence(lines[j + 1])
          /\ produced[j].token.kind = "Code"

\* ------------------------------------------------------------------------
\* C6: a fence that is never closed

\* the document ends inside a code fence
Unterminated == mode_at(fence_modes(lines), Len(lines)) = "code"

\* the last top-level token is a CodeBlock holding the opening fence and
\* every line after it, to the last line of the document
UnterminatedFenceShape ==
    (Assembled /\ Unterminated) =>
        LET block == ast[Len(ast)]
            o == opener(fence_modes(lines), Len(lines))
        IN  /\ block.kind = "CodeBlock"
            /\ Len(block.content) = Len(lines) - o + 1
            /\ block.content[1] = CodeFence(lines[o])
            /\ \A k \in 2..Len(block.content) :
                  block.content[k] = Code(lines[o + k - 1])
            /\ Len(produced) = Len(lines)
            /\ \A j \in 1..Len(lines) :
                  (produced[j].top = Len(ast)) = (j >= o)

\* C6 (unterminated fence): for a document with an opening CodeFence and
\* no later closing fence, assembly succeeds and gives one CodeBlock, last
\* at top level, whose children are the opening fence and every following
\* line up to the last line of the document.
C6_UnterminatedFence ==
    /\ Unterminated => pc # "failed"
    /\ UnterminatedFenceShape

\* ------------------------------------------------------------------------
\* C7: the list nesting example

is_item(token, level) ==
    /\ issubclass(token.kind, "TextListItem")
    /\ token.level = level

\* one TextList of 3 children: two level-0 items and a sublist holding one
\* level-2 item and a level-4 sublist of one item
ListExampleShape ==
    /\ Len(ast) = 1
    /\ ast[1].kind = "TextList"
    /\ Len(ast[1].content) = 3
    /\ is_item(ast[1].content[1], 0)
    /\ is_item(ast[1].content[2], 0)
    /\ ast[1].content[3].kind = "TextList"
    /\ LET sub == ast[1].content[3].content
       IN  /\ Len(sub) = 2
           /\ is_item(sub[1], 2)
           /\ sub[2].kind = "TextList"
           /\ Len(sub[2].content) = 1
           /\ is_item(sub[2].content[1], 4)

\* C7 (list nesting): the run of list items at levels 0, 0, 2, 2, 4, 0 is
\* assembled into one top-level TextList of 3 children, two level-0 items
\* and a nested TextList with one level-2 item and a level-4 sublist of one
\* item.
C7_ListNesting ==
    text = ListExample =>
        /\ pc # "failed"
        /\ Assembled => ListExampleShape

\* ------------------------------------------------------------------------
\* C8: looking up the name of a kind gives the kind back

\* the kinds of the catalog
Catalog ==
    {get_all_token_types(any_is_class)[i] :
        i \in 1..Len(get_all_token_types(any_is_class))}

\* C8 (registry round trip): when get_token_type is given the name that
\* get_token_type_name produced for a kind of the catalog, it returns that
\* kind.
C8_RegistryRoundTrip ==
    (found.kind # "none" /\ last_type \in Catalog /\ asked_name = last_name)
        => found = [kind |-> "type", value |-> last_type]

\* the name of TextListItem, which ends like the names of four other
\* kinds, was looked up
C8_Witness ==
    /\ last_type = "TextListItem"
    /\ asked_name = last_name
    /\ found.kind = "type"

\* ------------------------------------------------------------------------
\* C9: looking up a name that names nothing

CatalogNames == {get_token_type_name(k) : k \in Catalog}

\* C9 as stated (unknown name): get_token_type of a name that is not the
\* name of a cataloged kind fails with ConfigurationError and returns no
\* kind.
C9_UnknownNameConfigurationError ==
    (found.kind # "none" /\ asked_name \notin CatalogNames)
        => found.kind = "ConfigurationError"

\* C9 as amended (unknown name): get_token_type of a name that is not the
\* name of a cataloged kind raises ValueError and returns no kind.
C9_UnknownNameValueError ==
    (found.kind # "none" /\ asked_name \notin CatalogNames)
        => found = ValueError

\* the class identifier "Header" itself is not a name
C9_Witness ==
    /\ asked_name = class_name["Header"]
    /\ asked_name \notin CatalogNames
    /\ found = ValueError

\* ------------------------------------------------------------------------
\* C10: the form of a name

\* the upper-case letters of ident after the first character, up to j
capitals(ident, j) == Cardinality({i \in 2..j : isupper(ident[i])})

\* name is ident with a space before each upper-case letter but the first
\* character, in lower case
spaced_lower(name, ident) ==
    /\ Len(name) = Len(ident) + capitals(ident, Len(ident))
    /\ \A j \in 1..Len(ident) :
          /\ \E i \in 1..26 :
                /\ name[j + capitals(ident, j)] = LowerCase[i]
                /\ ident[j] \in {LowerCase[i], UpperCase[i]}
          /\ (j > 1 /\ isupper(ident[j])) =>
                name[j + capitals(ident, j) - 1] = " "

\* C10 (name form): the name of a kind is its identifier with one space
\* before every upper-case letter except the first character, lower-cased;
\* UnorderedListItem gives "unordered list item", ToDo gives "to do", and
\* no name starts with a space.
C10_NameForm ==
    last_type # "none" =>
        /\ spaced_lower(last_name, class_name[last_type])
        /\ last_name[1] # " "
        /\ last_type = "UnorderedListItem" =>
              last_name = <<"u","n","o","r","d","e","r","e","d"," ",
                            "l","i","s","t"," ","i","t","e","m">>
        /\ last_type = "ToDo" => last_name = <<"t","o"," ","d","o">>

\* the name of a kind with three capitals was computed
C10_Witness ==
    /\ last_type = "UnorderedListItem"
    /\ Len(last_name) = 19

\* ------------------------------------------------------------------------
\* C11: a compound token has children

\* C11 (children non-empty): constructing a compound token of any kind
\* (BlockquoteBlock, TextList, Table, CodeBlock, MathBlock, Section) with
\* zero children fails with EmptyInputError, and no compound token with an
\* empty child sequence exists.
C11_ChildrenNonEmpty ==
    /\ (made_cls \in BlockTypes /\ made_arg = <<>>)
          => made_token.kind = "EmptyInputError"
    /\ ~(made_token.kind \in BlockTypes /\ made_token.content = <<>>)

\* ------------------------------------------------------------------------
\* C12: the level of an indented token

LeveledTypes ==
    {"Text", "Blockquote", "ToDo", "Done", "UnorderedListItem",
     "NumberedListItem", "LetteredListItem"}

\* the number of characters c the line starts with
leading(line, c) ==
    Cardinality({i \in 1..Len(line) : \A j \in 1..i : line[j] = c})

\* C12 (level derivation): constructing a Text, Blockquote, ToDo, Done,
\* UnorderedListItem, NumberedListItem or LetteredListItem from any line
\* succeeds and gives a token whose level is the number of leading spaces
\* if there are any, and otherwise 4 times the number of leading tabs.
C12_LevelDerivation ==
    made_cls \in LeveledTypes =>
        /\ ~raised(made_token)
        /\ made_token.kind = made_cls
        /\ made_token.content = made_arg
        /\ made_token.level = IF leading(made_arg, " ") # 0
                        THEN leading(made_arg, " ")
                        ELSE 4 * leading(made_arg, "\t")

\* ------------------------------------------------------------------------
\* C13: the classifier

\* the order of the recognizers
RecognizerOrder ==
    <<"EmptyLine", "Header", "HorizontalRule", "CodeFence", "MathFence",
      "Blockquote", "ToDo", "Done", "Footnote", "UnorderedListItem",
      "NumberedListItem", "LetteredListItem", "TableDivider", "TableRow">>

\* C13 (classification): for every line the classifier returns one simple
\* token type: the first type of the ordered list EmptyLine, Header,
\* HorizontalRule, CodeFence, MathFence, Blockquote, ToDo, Done, Footnote,
\* UnorderedListItem, NumberedListItem, LetteredListItem, TableDivider,
\* TableRow whose recognizer matches the line, and Text when none matches;
\* a line that is both a Done (ToDo) and an UnorderedListItem is Done
\* (ToDo), and a line of whitespace only is EmptyLine.
C13_FirstMatch ==
    /\ simple_token_types = RecognizerOrder
    /\ line_type # "none" =>
          /\ line_type = classify(asked_line)
          /\ \/ /\ line_type = "Text"
                /\ \A i \in 1..Len(RecognizerOrder) :
                      ~pattern_match(RecognizerOrder[i], asked_line)
             \/ \E i \in 1..Len(RecognizerOrder) :
                   /\ line_type = RecognizerOrder[i]
                   /\ pattern_match(RecognizerOrder[i], asked_line)
                   /\ \A j \in 1..(i - 1) :
                         ~pattern_match(RecognizerOrder[j], asked_line)
          /\ (done(asked_line) /\ unordered_list_item(asked_line))
                => line_type = "Done"
          /\ (to_do(asked_line) /\ unordered_list_item(asked_line))
                => line_type = "ToDo"
          /\ (\A i \in 1..Len(asked_line) : asked_line[i] \in Whitespace)
                => line_type = "EmptyLine"

\* a finished to-do line, which the unordered list item recognizer matches
\* too, was classified
C13_Witness ==
    /\ line_type = "Done"
    /\ done(asked_line)
    /\ unordered_list_item(asked_line)
    /\ Len(asked_line) > 0

\* ------------------------------------------------------------------------
\* C14: rendering a section and tokenizing it again

\* C14 (idempotent rendering): for every Section the splitter returned,
\* rendering the Section to text and running the lexer and the assembler
\* on that text succeeds and gives a token sequence equal to the Section's
\* children (same kinds, contents, nesting and count).
C14_IdempotentRendering ==
    pc = "done" =>
        \A i \in 1..Len(sections) :
            tokenize(str(sections[i]))
                = [ast |-> sections[i].content, error |-> "none"]

\* ------------------------------------------------------------------------
\* C15: reset_settings

DefaultKeys ==
    {"backlink", "copy_frontmatter", "copy_global_tags", "parse_blocks",
     "create_index_file", "destination_folder_path", "file_id_format",
     "file_id_regex", "file_name_format", "note_types",
     "replace_split_contents", "source_folder_path", "split_attrs",
     "split_keyword", "split_type"}

\* C15 (reset): after reset_settings, whatever was done to the settings
\* before (key assignments, in-place changes of the split_attrs mapping or
\* of the note_types list, loads, earlier resets), the settings hold exactly
\* the default keys, with split_type = Header, split_attrs = {level: 2} and
\* note_types = ['.md', '.markdown', '.txt'].
C15_ResetRestoresDefaults ==
    last_call = "reset_settings" =>
        /\ outcome = "returned"
        /\ DOMAIN settings = DefaultKeys
        /\ settings["split_type"] = [type |-> "Header"]
        /\ deref(settings["split_attrs"], objects)
              = [dict |-> ([str |-> <<"l", "e", "v", "e", "l">>] :> [int |-> 2])]
        /\ deref(settings["note_types"], objects)
              = [list |-> <<[str |-> <<".", "m", "d">>], [str |-> <<".", "m", "a", "r", "k", "d", "o", "w", "n">>], [str |-> <<".", "t", "x", "t">>]>>]

\* ------------------------------------------------------------------------
\* C19: save_settings and the settings in memory

\* C19 (save frame): after save_settings, whether it returned or raised
\* while opening or writing the file, settings['split_type'] is the token
\* type it was before the call, not its name, and every other key has the
\* value it had.
C19_SaveLeavesSettings ==
    last_call = "save_settings" =>
        snapshot(settings, objects) = before_save.settings

\* ------------------------------------------------------------------------
\* C20: save_settings, then load_settings

\* C20 (persistence round trip): when load_settings follows a save_settings
\* that returned, of settings that hold a split_attrs mapping, whatever the
\* mapping (the one keyed by None included), the settings are what they
\* were before the save: split_type is the same token type and split_attrs
\* has the same keys and values.
C20_SaveLoadRoundTrip ==
    (/\ last_call = "load_settings"
     /\ before_save.outcome = "returned"
     /\ "split_attrs" \in DOMAIN before_save.settings) =>
        /\ outcome = "returned"
        /\ snapshot(settings, objects) = before_save.settings

\* a mapping that JSON keeps: its keys are strings other than 'null', or it
\* is the no-attribute mapping {None: ''}
kept_by_json(mapping) ==
    \/ mapping = (None :> [str |-> <<>>])
    \/ \A key \in DOMAIN mapping : "str" \in DOMAIN key /\ key # [str |-> <<"n", "u", "l", "l">>]

\* the round trip for the mappings that JSON keeps
RoundTripOfKeptMappings ==
    (/\ last_call = "load_settings"
     /\ before_save.outcome = "returned"
     /\ "split_attrs" \in DOMAIN before_save.settings
     /\ kept_by_json(before_save.settings["split_attrs"].dict)) =>
        /\ outcome = "returned"
        /\ snapshot(settings, objects) = before_save.settings

\* ------------------------------------------------------------------------
\* C16, C17: text lists

\* the line that failed, or none, is not a list item: no list item stops
\* the assembler
ListItemsProcessed ==
    pc = "failed" => ~issubclass(classify(lines[pos]), "TextListItem")

\* every TextList at or below tokens_
RECURSIVE text_lists(_)
text_lists(tokens_) ==
    IF tokens_ = <<>> THEN {}
    ELSE LET token == Head(tokens_)
             here == IF token.kind = "TextList" THEN {token} ELSE {}
             below == IF issubclass(token.kind, "Block")
                      THEN text_lists(token.content)
                      ELSE {}
         IN  here \cup below \cup text_lists(Tail(tokens_))

\* the level of the list is that of its first child, and each child is an
\* item of that level or a TextList of a greater level
monotone(list) ==
    /\ list.level = list.content[1].level
    /\ \A i \in 1..Len(list.content) :
          LET child == list.content[i]
          IN  \/ /\ issubclass(child.kind, "TextListItem")
                 /\ child.level = list.level
              \/ /\ child.kind = "TextList"
                 /\ child.level > list.level

\* the tokens held by the open builders
RECURSIVE held(_)
held(st) == IF st = <<>> THEN <<>> ELSE Head(st).content \o held(Tail(st))

\* every TextList built so far, at top level or inside an open builder
ListLevels == \A list \in text_lists(ast \o held(stack)) : monotone(list)

\* C16 (level monotonicity): every run of list items, whatever their
\* levels, is assembled, and in every TextList the assembler builds the
\* level is the level of the first child and every immediate child is a
\* list item of that level or a nested TextList of a strictly greater
\* level.
C16_LevelMonotonicity == ListItemsProcessed /\ ListLevels

\* the positions of the open TextList builders on the stack
open_lists == {i \in 1..Len(stack) : stack[i].kind = "TextList"}

\* the line processed last was classified as a list item
after_list_item ==
    /\ pc = "assemble"
    /\ pos > 1
    /\ mode_at(fence_modes(lines), pos - 2) = "none"
    /\ issubclass(classify(lines[pos - 1]), "TextListItem")

\* open lists are deeper the further in they are; after a list item every
\* open list is at most as deep as the item, and the item is the last child
\* of the innermost one, whose level is the item's
StackDiscipline ==
    /\ \A i, j \in open_lists :
          i < j => open_level(stack[i]) < open_level(stack[j])
    /\ after_list_item =>
          LET level == get_indentation_level(lines[pos - 1])
          IN  /\ stack # <<>>
              /\ stack[Len(stack)].kind = "TextList"
              /\ open_level(stack[Len(stack)]) = level
              /\ \A i \in open_lists : open_level(stack[i]) <= level
              /\ LET items == stack[Len(stack)].content
                 IN  /\ items[Len(items)].content = lines[pos - 1]
                     /\ items[Len(items)].level = level

\* C17 (list stack discipline): every list item is processed, at every step
\* of assembly the open TextList builders have strictly increasing levels
\* from outermost to innermost, and after a list item of level L every
\* open list has level <= L and the item is a child of the innermost open
\* list, whose level is L.
C17_ListStackDiscipline == ListItemsProcessed /\ StackDiscipline

\* ------------------------------------------------------------------------
\* C18: what the assembler leaves at top level

\* the simple token types that only occur inside a block
Folded ==
    {"Blockquote", "TableRow", "TableDivider", "CodeFence", "MathFence",
     "Code", "Math", "ToDo", "Done", "UnorderedListItem",
     "NumberedListItem", "LetteredListItem"}

====
